---- MODULE Spec2Model ----
(***************************************************************************)
(* Model of src/main.py (NVIDIA driver settings backup script).            *)
(*                                                                         *)
(* One run of main() is a straight line of calls:                          *)
(*   setup_logging, get_nvidia_driver_info, create_backup_directory,       *)
(*   backup_nvidia_profile_files, backup_nvidia_registry_settings,         *)
(*   the summary print, the driver_info.txt write, the "Next steps" print. *)
(* The environment (external tools, the file system, the wall clock)       *)
(* chooses the outcome of every call.  An exception that no except clause  *)
(* of the function catches propagates out of main() and ends the run.      *)
(***************************************************************************)
EXTENDS Integers, Sequences, FiniteSets, TLC

\* ---------------------------------------------------------------- bounds
MaxOut == 3          \* longest standard output of nvidia-smi, in characters
MaxClock == 4        \* last instant of real time, in ticks
MaxSetBack == 1      \* largest backward step of the local clock, in seconds
MaxRuns == 2         \* runs of main() in one behaviour
TicksPerSec == 2     \* resolution of real time: ticks per second

\* ------------------------------------------------------------ characters
NL == "LF"
SP == " "
Chars == {NL, SP, "5"}

Unknown == <<"U", "n", "k", "n", "o", "w", "n">>
Unbound == <<"<unbound>">>
NoDir == -1

\* ------------------------------------------------------------ file names
NVIDIA_Profiles == <<"NVIDIA_Profiles">>
RegFile == <<"nvidia_registry_backup.reg">>
DriverInfoFile == <<"driver_info.txt">>

\* files that may exist under PROGRAMDATA/NVIDIA Corporation/Drs
RelPaths == {<<"nvdrsdb0.bin">>, <<"sub", "nvdrssel.bin">>}

VARIABLES
    clock,                      \* real time, in ticks
    offset,                     \* local clock minus real time, in seconds
    src_dir,                    \* the source profile directory
    home,                       \* backup directories under Path.home(): name -> entries
    info_version,               \* name -> driver version written in driver_info.txt
    log,                        \* records appended to nvidia_backup.log
    runs,                       \* runs of main() started so far
    created,                    \* create_backup_directory calls: when, and the name
    pc,                         \* position of the current run in main()
    trace,                      \* steps the current run has attempted, in order
    smi,                        \* what nvidia-smi did in the current run
    driver_version,             \* local of main()
    backup_dir,                 \* local of main()
    profile_backup_success,     \* local of main()
    registry_backup_success,    \* local of main()
    printed                     \* what the current run printed

vars == <<clock, offset, src_dir, home, info_version, log, runs, created, pc,
          trace, smi, driver_version, backup_dir, profile_backup_success,
          registry_backup_success, printed>>

env == <<clock, offset>>
locals == <<driver_version, backup_dir, profile_backup_success,
            registry_backup_success>>

\* ------------------------------------------------------- pure functions

\* all character strings of length at most n
RECURSIVE StrUpTo(_)
StrUpTo(n) ==
    IF n = 0 THEN {<<>>}
    ELSE LET shorter == StrUpTo(n - 1)
         IN  shorter \cup {Append(s, c) : s \in {t \in shorter : Len(t) = n - 1}, c \in Chars}

\* index of the first line break of s, 0 when there is none
FirstNL(s) ==
    IF \E i \in 1..Len(s) : s[i] = NL
    THEN CHOOSE i \in 1..Len(s) : s[i] = NL /\ \A j \in 1..(i - 1) : s[j] # NL
    ELSE 0

\* str.splitlines(): the lines of s without their line breaks
RECURSIVE splitlines(_)
splitlines(s) ==
    IF s = <<>> THEN <<>>
    ELSE LET i == FirstNL(s)
         IN  IF i = 0 THEN <<s>>
             ELSE <<SubSeq(s, 1, i - 1)>> \o splitlines(SubSeq(s, i + 1, Len(s)))

\* str.strip(): s without leading and trailing white space
RECURSIVE lstrip(_)
lstrip(s) == IF s # <<>> /\ Head(s) = SP THEN lstrip(Tail(s)) ELSE s

RECURSIVE rstrip(_)
rstrip(s) ==
    IF s # <<>> /\ s[Len(s)] = SP THEN rstrip(SubSeq(s, 1, Len(s) - 1)) ELSE s

strip(s) == rstrip(lstrip(s))

\* datetime.datetime.now(): the local wall clock, in ticks
now(c, off) == c + off * TicksPerSec

\* strftime("%Y%m%d_%H%M%S"): the whole local second; fraction and UTC offset are dropped
strftime(t) == t \div TicksPerSec

LogRec(level, msg) == [level |-> level, msg |-> msg]

\* ------------------------------------------------- the functions of main.py

\* what an external command did: it could not be started (subprocess.run raises
\* FileNotFoundError or another OSError), it exited with a non-zero status
\* (check=True raises CalledProcessError), or it exited with status zero
ToolKinds == {"oserror", "nonzero", "exit0"}

\* get_nvidia_driver_info() reading the header line, stdout.splitlines()[0]
get_nvidia_driver_info_first_line(tool) ==
    IF tool.kind = "oserror" THEN
        [raised |-> "FileNotFoundError", ret |-> Unbound, log |-> <<>>]
    ELSE IF tool.kind = "nonzero" THEN
        [raised |-> "none", ret |-> Unknown,
         log |-> <<LogRec("ERROR", "Failed to retrieve NVIDIA driver info")>>]
    ELSE LET lines == splitlines(tool.out)
         IN  IF Len(lines) < 2 THEN
                 [raised |-> "IndexError", ret |-> Unbound, log |-> <<>>]
             ELSE
                 [raised |-> "none", ret |-> strip(lines[1]),
                  log |-> <<LogRec("INFO", "NVIDIA Driver Version")>>]

\* get_nvidia_driver_info(): only CalledProcessError is caught
get_nvidia_driver_info(tool) ==
    IF tool.kind = "oserror" THEN
        [raised |-> "FileNotFoundError", ret |-> Unbound, log |-> <<>>]
    ELSE IF tool.kind = "nonzero" THEN
        [raised |-> "none", ret |-> Unknown,
         log |-> <<LogRec("ERROR", "Failed to retrieve NVIDIA driver info")>>]
    ELSE LET lines == splitlines(tool.out)
         IN  IF Len(lines) < 2 THEN
                 [raised |-> "IndexError", ret |-> Unbound, log |-> <<>>]
             ELSE
                 [raised |-> "none", ret |-> strip(lines[2]),
                  log |-> <<LogRec("INFO", "NVIDIA Driver Version")>>]

\* create_backup_directory(): the name is the formatted local time;
\* mkdir(parents=True, exist_ok=True) keeps a directory that is already there
create_backup_directory(dirs, t, mkdir_ok) ==
    LET name == strftime(t)
    IN  IF ~mkdir_ok THEN
            [raised |-> "OSError", ret |-> NoDir, dirs |-> dirs, log |-> <<>>]
        ELSE
            [raised |-> "none", ret |-> name,
             dirs |-> IF name \in DOMAIN dirs THEN dirs
                      ELSE [d \in DOMAIN dirs \cup {name} |->
                               IF d \in DOMAIN dirs THEN dirs[d] ELSE {}],
             log |-> <<LogRec("INFO", "Created backup directory")>>]

\* the directories a set of files lies in: their proper non-empty prefixes
DirsOf(files) ==
    UNION {{SubSeq(f, 1, k) : k \in 1..(Len(f) - 1)} : f \in files}

\* a copy that skips the entries it cannot read and reports nothing
copytree_ignoring_errors(files, entries, readable) ==
    [raised |-> FALSE,
     entries |-> entries \cup {NVIDIA_Profiles}
                    \cup {NVIDIA_Profiles \o d : d \in DirsOf(files)}
                    \cup {NVIDIA_Profiles \o f : f \in files \cap readable}]

\* shutil.copytree(src, dst, dirs_exist_ok=True): the destination directory is
\* made, every entry is tried, the failures are collected and raised at the end
copytree(files, entries, readable) ==
    LET copied == files \cap readable
        errors == files \ readable
    IN  [raised |-> errors # {},
         entries |-> entries \cup {NVIDIA_Profiles}
                        \cup {NVIDIA_Profiles \o d : d \in DirsOf(files)}
                        \cup {NVIDIA_Profiles \o f : f \in copied}]

\* backup_nvidia_profile_files() making dest_dir before it looks for src_dir
\* and taking a missing source for nothing to copy
backup_nvidia_profile_files_no_guard(src, entries, readable) ==
    IF ~src.exists THEN
        [ret |-> TRUE, entries |-> entries \cup {NVIDIA_Profiles},
         log |-> <<LogRec("INFO", "Backed up NVIDIA profile files")>>]
    ELSE LET c == copytree(src.files, entries, readable)
         IN  IF c.raised THEN
                 [ret |-> FALSE, entries |-> c.entries,
                  log |-> <<LogRec("ERROR", "Failed to back up NVIDIA profile files")>>]
             ELSE
                 [ret |-> TRUE, entries |-> c.entries,
                  log |-> <<LogRec("INFO", "Backed up NVIDIA profile files")>>]

\* backup_nvidia_profile_files(backup_dir)
backup_nvidia_profile_files(src, entries, readable) ==
    IF ~src.exists THEN
        [ret |-> FALSE, entries |-> entries,
         log |-> <<LogRec("WARNING", "NVIDIA profile directory not found")>>]
    ELSE LET c == copytree(src.files, entries, readable)
         IN  IF c.raised THEN
                 [ret |-> FALSE, entries |-> c.entries,
                  log |-> <<LogRec("ERROR", "Failed to back up NVIDIA profile files")>>]
             ELSE
                 [ret |-> TRUE, entries |-> c.entries,
                  log |-> <<LogRec("INFO", "Backed up NVIDIA profile files")>>]

\* backup_nvidia_registry_settings() removing the backup when the export fails
backup_nvidia_registry_settings_rollback(entries, kind) ==
    IF kind = "oserror" THEN
        [raised |-> "FileNotFoundError", ret |-> FALSE, entries |-> entries, log |-> <<>>]
    ELSE IF kind = "nonzero" THEN
        [raised |-> "none", ret |-> FALSE, entries |-> {},
         log |-> <<LogRec("ERROR", "Failed to back up NVIDIA registry settings")>>]
    ELSE
        [raised |-> "none", ret |-> TRUE, entries |-> entries \cup {RegFile},
         log |-> <<LogRec("INFO", "Backed up NVIDIA registry settings")>>]

\* backup_nvidia_registry_settings(backup_dir): only CalledProcessError is caught
backup_nvidia_registry_settings(entries, kind) ==
    IF kind = "oserror" THEN
        [raised |-> "FileNotFoundError", ret |-> FALSE, entries |-> entries, log |-> <<>>]
    ELSE IF kind = "nonzero" THEN
        [raised |-> "none", ret |-> FALSE, entries |-> entries,
         log |-> <<LogRec("ERROR", "Failed to back up NVIDIA registry settings")>>]
    ELSE
        [raised |-> "none", ret |-> TRUE, entries |-> entries \cup {RegFile},
         log |-> <<LogRec("INFO", "Backed up NVIDIA registry settings")>>]

\* the summary branch with "or" for "and"
Summary_or(profile_ok, registry_ok) ==
    IF profile_ok \/ registry_ok THEN "Backup completed" ELSE "Backup partially failed"

\* the summary branch of main()
Summary(profile_ok, registry_ok) ==
    IF profile_ok /\ registry_ok THEN "Backup completed" ELSE "Backup partially failed"

SummaryLog(profile_ok, registry_ok) ==
    IF profile_ok /\ registry_ok
    THEN LogRec("INFO", "Backup completed successfully")
    ELSE LogRec("WARNING", "Backup partially failed")

\* main() with driver_info.txt written before the summary is printed
NextPc_info_first(p) ==
    CASE p = "query" -> "create"
      [] p = "create" -> "profile"
      [] p = "profile" -> "registry"
      [] p = "registry" -> "write_info"
      [] p = "write_info" -> "summary"
      [] p = "summary" -> "next_steps"
      [] p = "next_steps" -> "done"

\* the statement main() runs after the one at p returns
NextPc(p) ==
    CASE p = "query" -> "create"
      [] p = "create" -> "profile"
      [] p = "profile" -> "registry"
      [] p = "registry" -> "summary"
      [] p = "summary" -> "write_info"
      [] p = "write_info" -> "next_steps"
      [] p = "next_steps" -> "done"

\* where main() is after a call: an uncaught exception leaves main()
After(p, raised) == IF raised = "none" THEN NextPc(p) ELSE "aborted"

\* ------------------------------------------------------------ the machine

NoTool == [kind |-> "none", out |-> <<>>]

\* what nvidia-smi can do: its standard output matters when it exits with zero
SmiResults ==
    {[kind |-> k, out |-> <<>>] : k \in {"oserror", "nonzero"}}
        \cup {[kind |-> "exit0", out |-> o] : o \in StrUpTo(MaxOut)}

SmiSample ==
    {[kind |-> k, out |-> <<>>] : k \in {"oserror", "nonzero"}}
        \cup {[kind |-> "exit0", out |-> <<"5", NL, "5">>]}

SourceDirs ==
    {[exists |-> FALSE, files |-> {}]}
        \cup {[exists |-> TRUE, files |-> fs] : fs \in SUBSET RelPaths}

\* the complete backup an earlier run left one second before real time 0
EarlierDir == strftime(now(0, MaxSetBack)) - 1
EarlierEntries == {NVIDIA_Profiles, RegFile, DriverInfoFile}

Init ==
    /\ clock = 0
    /\ offset = MaxSetBack
    /\ src_dir \in SourceDirs
    /\ \/ home = <<>> /\ info_version = <<>>
       \/ /\ home = [d \in {EarlierDir} |-> EarlierEntries]
          /\ info_version = [d \in {EarlierDir} |-> Unknown]
    /\ log = <<>>
    /\ runs = 0
    /\ created = <<>>
    /\ pc = "idle"
    /\ trace = <<>>
    /\ smi = NoTool
    /\ driver_version = Unbound
    /\ backup_dir = NoDir
    /\ profile_backup_success = FALSE
    /\ registry_backup_success = FALSE
    /\ printed = <<>>

\* real time passes; the run reads the clock in create_backup_directory only,
\* so the time that passes elsewhere is taken just before that read
Tick ==
    /\ pc = "create"
    /\ clock < MaxClock
    /\ clock' = clock + 1
    /\ UNCHANGED <<offset, src_dir, home, info_version, log, runs, created, pc,
                   trace, smi, locals, printed>>

\* the local clock is set back (end of daylight saving time, a clock correction)
ClockSetBack ==
    /\ pc = "create"
    /\ \E k \in 1..offset : offset' = offset - k
    /\ UNCHANGED <<clock, src_dir, home, info_version, log, runs, created, pc,
                   trace, smi, locals, printed>>

\* main() is entered: setup_logging() and the first logging.info;
\* a behaviour holds at most limit runs, one after the other
StartRun(limit) ==
    /\ pc \in {"idle", "done", "aborted"}
    /\ runs < limit
    /\ runs' = runs + 1
    /\ pc' = "query"
    /\ log' = Append(log, LogRec("INFO", "Starting NVIDIA driver settings backup process"))
    /\ trace' = <<>>
    /\ smi' = NoTool
    /\ driver_version' = Unbound
    /\ backup_dir' = NoDir
    /\ profile_backup_success' = FALSE
    /\ registry_backup_success' = FALSE
    /\ printed' = <<>>
    /\ UNCHANGED <<env, src_dir, home, info_version, created>>

\* driver_version = get_nvidia_driver_info()
QueryDriver(results) ==
    /\ pc = "query"
    /\ \E tool \in results :
          LET r == get_nvidia_driver_info(tool)
          IN  /\ smi' = tool
              /\ driver_version' = r.ret
              /\ log' = log \o r.log
              /\ pc' = After("query", r.raised)
    /\ trace' = Append(trace, "query")
    /\ UNCHANGED <<env, src_dir, home, info_version, runs, created, backup_dir,
                   profile_backup_success, registry_backup_success, printed>>

\* backup_dir = create_backup_directory()
CreateDir ==
    /\ pc = "create"
    /\ \E mkdir_ok \in BOOLEAN :
          LET r == create_backup_directory(home, now(clock, offset), mkdir_ok)
          IN  /\ home' = r.dirs
              /\ backup_dir' = r.ret
              /\ log' = log \o r.log
              /\ pc' = After("create", r.raised)
              /\ created' = IF mkdir_ok
                            THEN Append(created, [at |-> clock, name |-> r.ret])
                            ELSE created
    /\ trace' = Append(trace, "create")
    /\ UNCHANGED <<env, src_dir, info_version, runs, smi, driver_version,
                   profile_backup_success, registry_backup_success, printed>>

\* profile_backup_success = backup_nvidia_profile_files(backup_dir)
BackupProfiles ==
    /\ pc = "profile"
    /\ \E readable \in SUBSET RelPaths :
          LET r == backup_nvidia_profile_files(src_dir, home[backup_dir], readable)
          IN  /\ home' = [home EXCEPT ![backup_dir] = r.entries]
              /\ profile_backup_success' = r.ret
              /\ log' = log \o r.log
    /\ pc' = After("profile", "none")
    /\ trace' = Append(trace, "profile")
    /\ UNCHANGED <<env, src_dir, info_version, runs, created, smi, driver_version,
                   backup_dir, registry_backup_success, printed>>

\* registry_backup_success = backup_nvidia_registry_settings(backup_dir)
BackupRegistry ==
    /\ pc = "registry"
    /\ \E kind \in ToolKinds :
          LET r == backup_nvidia_registry_settings(home[backup_dir], kind)
          IN  /\ home' = [home EXCEPT ![backup_dir] = r.entries]
              /\ registry_backup_success' = r.ret
              /\ log' = log \o r.log
              /\ pc' = After("registry", r.raised)
    /\ trace' = Append(trace, "registry")
    /\ UNCHANGED <<env, src_dir, info_version, runs, created, smi, driver_version,
                   backup_dir, profile_backup_success, printed>>

\* the summary: one log record and one printed line
PrintSummary ==
    /\ pc = "summary"
    /\ printed' = Append(printed, Summary(profile_backup_success, registry_backup_success))
    /\ log' = Append(log, SummaryLog(profile_backup_success, registry_backup_success))
    /\ pc' = After("summary", "none")
    /\ trace' = Append(trace, "summary")
    /\ UNCHANGED <<env, src_dir, home, info_version, runs, created, smi, locals>>

\* driver_info.txt is opened for writing and written; open() is not guarded
WriteDriverInfo ==
    /\ pc = "write_info"
    /\ \E open_ok \in BOOLEAN :
          IF open_ok THEN
              /\ home' = [home EXCEPT ![backup_dir] = @ \cup {DriverInfoFile}]
              /\ info_version' = [d \in DOMAIN info_version \cup {backup_dir} |->
                                     IF d = backup_dir THEN driver_version
                                     ELSE info_version[d]]
              /\ pc' = After("write_info", "none")
          ELSE
              /\ pc' = After("write_info", "OSError")
              /\ UNCHANGED <<home, info_version>>
    /\ trace' = Append(trace, "write_info")
    /\ UNCHANGED <<env, src_dir, log, runs, created, smi, locals, printed>>

\* the closing hints are printed and main() returns
PrintNextSteps ==
    /\ pc = "next_steps"
    /\ printed' = Append(printed, "Next steps")
    /\ pc' = After("next_steps", "none")
    /\ trace' = Append(trace, "next_steps")
    /\ UNCHANGED <<env, src_dir, home, info_version, log, runs, created, smi, locals>>

\* one run of main(), nvidia-smi printing any text of at most MaxOut characters
Next ==
    \/ Tick
    \/ ClockSetBack
    \/ StartRun(1)
    \/ QueryDriver(SmiResults)
    \/ CreateDir
    \/ BackupProfiles
    \/ BackupRegistry
    \/ PrintSummary
    \/ WriteDriverInfo
    \/ PrintNextSteps

Spec == Init /\ [][Next]_vars

\* MaxRuns runs of main() one after the other, nvidia-smi failing or printing
\* the header line and a version line
NextRuns ==
    \/ Tick
    \/ ClockSetBack
    \/ StartRun(MaxRuns)
    \/ QueryDriver(SmiSample)
    \/ CreateDir
    \/ BackupProfiles
    \/ BackupRegistry
    \/ PrintSummary
    \/ WriteDriverInfo
    \/ PrintNextSteps

SpecRuns == Init /\ [][NextRuns]_vars

RunEnded == pc \in {"done", "aborted"}

TypeOK ==
    /\ clock \in 0..MaxClock
    /\ offset \in 0..MaxSetBack
    /\ src_dir \in SourceDirs
    /\ runs \in 0..MaxRuns
    /\ pc \in {"idle", "query", "create", "profile", "registry", "summary",
               "write_info", "next_steps", "done", "aborted"}
    /\ profile_backup_success \in BOOLEAN
    /\ registry_backup_success \in BOOLEAN
    /\ backup_dir \in {NoDir} \cup DOMAIN home

\* ------------------------------------------------------------- the claims

Has(step) == \E i \in DOMAIN trace : trace[i] = step
Count(step) == Cardinality({i \in DOMAIN trace : trace[i] = step})
IsPrefix(a, b) == Len(a) <= Len(b) /\ \A i \in DOMAIN a : a[i] = b[i]
Printed == {printed[i] : i \in DOMAIN printed}
Summaries == {"Backup completed", "Backup partially failed"}
CopyOf(f) == NVIDIA_Profiles \o f

\* C1: when a run of main() has ended, driver_info.txt exists in that run's
\* backup directory, whatever the other steps did.
C1_DriverInfoAfterEveryRun ==
    RunEnded => backup_dir \in DOMAIN home /\ DriverInfoFile \in home[backup_dir]

\* C2: no failure of a step leaves main() as an uncaught exception: every run
\* reaches its end and has printed a summary.
C2_RunNeverAborts ==
    RunEnded => pc = "done" /\ Printed \cap Summaries # {}

\* C3: with the source profile directory missing, backup_nvidia_profile_files
\* returns False without raising, copies nothing and creates no NVIDIA_Profiles
\* directory, and the backup directory still exists.
C3_MissingSource ==
    [][(pc = "profile" /\ pc' # "profile" /\ ~src_dir.exists) =>
          /\ profile_backup_success' = FALSE
          /\ pc' = "registry"
          /\ home' = home
          /\ backup_dir' \in DOMAIN home']_vars

C3_Witness ==
    /\ pc = "registry"
    /\ ~src_dir.exists
    /\ profile_backup_success = FALSE
    /\ backup_dir \in DOMAIN home
    /\ NVIDIA_Profiles \notin home[backup_dir]

\* C4: once backup_nvidia_profile_files has returned True, every file of the
\* source tree is at the same relative path under <backup_dir>/NVIDIA_Profiles.
C4_TrueMeansComplete ==
    (Has("profile") /\ profile_backup_success) =>
        \A f \in src_dir.files : CopyOf(f) \in home[backup_dir]

C4_Witness ==
    /\ pc = "registry"
    /\ profile_backup_success
    /\ src_dir.files = RelPaths
    /\ \A f \in RelPaths : CopyOf(f) \in home[backup_dir]

\* C5: two create_backup_directory calls at least one second apart obtain
\* distinct backup directory names.
C5_DistinctNames ==
    \A i, j \in DOMAIN created :
        (i < j /\ created[j].at - created[i].at >= TicksPerSec) =>
            created[i].name # created[j].name

\* C6: when a run has ended, each of its steps was attempted exactly once.
C6_EachStepExactlyOnce ==
    RunEnded =>
        \A step \in {"query", "create", "profile", "registry", "write_info"} :
            Count(step) = 1

\* C7: the summary printed is "Backup completed" exactly when both the profile
\* copy and the registry export returned True, "Backup partially failed" in
\* every other case, and nothing before the summary statement is reached.
C7_SummaryIffBoth ==
    Printed \cap Summaries =
        IF ~Has("summary") THEN {}
        ELSE IF profile_backup_success /\ registry_backup_success
             THEN {"Backup completed"}
             ELSE {"Backup partially failed"}

C7_Witness ==
    /\ pc = "done"
    /\ smi.kind = "nonzero"
    /\ profile_backup_success
    /\ registry_backup_success
    /\ "Backup completed" \in Printed

\* C8 as stated: the steps of a run occur in the order query, create, copy,
\* export, write driver_info.txt, print the status.
C8_ClaimedOrder ==
    IsPrefix(trace, <<"query", "create", "profile", "registry", "write_info", "summary">>)

\* C8 as amended: the steps of a run occur in the order query, create, copy,
\* export, print the status summary, write driver_info.txt, print the closing
\* hints; and nothing is written into the backup directory before it is created.
C8_ActualOrder ==
    /\ IsPrefix(trace, <<"query", "create", "profile", "registry", "summary",
                         "write_info", "next_steps">>)
    /\ (Has("profile") \/ Has("registry") \/ Has("write_info")) =>
           Has("create") /\ backup_dir \in DOMAIN home

C8_Witness ==
    /\ pc = "done"
    /\ trace = <<"query", "create", "profile", "registry", "summary",
                 "write_info", "next_steps">>
    /\ DriverInfoFile \in home[backup_dir]

\* l is the second line of the text out: what lies between its first line break
\* and the next one (or its end), when something follows the first line break
IsSecondLine(out, l) ==
    \E i \in DOMAIN out :
        /\ out[i] = NL
        /\ \A k \in 1..(i - 1) : out[k] # NL
        /\ i < Len(out)
        /\ \E j \in i..Len(out) :
              /\ l = SubSeq(out, i + 1, j)
              /\ \A k \in (i + 1)..j : out[k] # NL
              /\ j = Len(out) \/ out[j + 1] = NL

\* v is l without its leading and trailing blanks
IsStripped(l, v) ==
    /\ \E a, b \in 0..Len(l) :
          /\ a + Len(v) + b = Len(l)
          /\ \A k \in DOMAIN l :
                IF k <= a \/ k > a + Len(v) THEN l[k] = SP ELSE l[k] = v[k - a]
    /\ v # <<>> => v[1] # SP /\ v[Len(v)] # SP

WroteInfo == Has("write_info") /\ pc # "aborted"

\* C9: the version in driver_info.txt is the stripped second line of what
\* nvidia-smi printed when it exited with zero and "Unknown" when it exited
\* with non-zero; after a non-zero exit the run goes on to the next step.
C9_RecordedVersion ==
    /\ (WroteInfo /\ smi.kind = "exit0") =>
           \E l \in StrUpTo(Len(smi.out)) :
               IsSecondLine(smi.out, l) /\ IsStripped(l, info_version[backup_dir])
    /\ (WroteInfo /\ smi.kind = "nonzero") => info_version[backup_dir] = Unknown
    /\ (smi.kind = "nonzero" /\ trace = <<"query">>) => pc = "create"

C9_Witness ==
    /\ pc = "done"
    /\ smi = [kind |-> "exit0", out |-> <<NL, SP, "5">>]
    /\ info_version[backup_dir] = <<"5">>

\* C10: no step changes the source profile directory; no step removes anything
\* from a backup directory (no rollback); a step writes into the backup
\* directory of its run only.
C10_Frame ==
    [][/\ src_dir' = src_dir
       /\ \A d \in DOMAIN home : d \in DOMAIN home' /\ home[d] \subseteq home'[d]
       /\ \A d \in DOMAIN home' :
             d # backup_dir' =>
                 /\ d \in DOMAIN home /\ home'[d] = home[d]
                 /\ d \in DOMAIN info_version =>
                        d \in DOMAIN info_version' /\ info_version'[d] = info_version[d]]_vars

C10_Witness ==
    /\ pc = "done"
    /\ profile_backup_success
    /\ ~registry_backup_success
    /\ src_dir.files = RelPaths
    /\ \A f \in RelPaths : CopyOf(f) \in home[backup_dir]
    /\ RegFile \notin home[backup_dir]
    /\ EarlierDir \in DOMAIN home /\ EarlierDir # backup_dir
    /\ home[EarlierDir] = EarlierEntries

====
